---- MODULE Spec2Model ----
(***************************************************************************)
(* Model of main.py: a Flask server that loads locations.csv into the      *)
(* module-level variable `fatal` and renders a folium map of the fatal     *)
(* crashes.                                                                *)
(*                                                                         *)
(* Two specifications over the same state:                                 *)
(*   SeqSpec  one synchronous worker: every handler runs to completion     *)
(*            before the next request is taken;                            *)
(*   Spec     the threaded server: a page worker runs /crashmap one read   *)
(*            of the global `fatal` at a time, while a second worker may   *)
(*            serve /_ah/warmup between any two of those reads. The        *)
(*            handlers are built from the same operators.                  *)
(***************************************************************************)
EXTENDS Integers, Sequences, FiniteSets, TLC

\* ------------------------------------------------------------ bounds
\* rows of locations.csv in the synchronous specification
MaxSeqRows == 3
\* rows of locations.csv in the threaded specification
MaxRows == 1
\* /crashmap requests served in one run
MaxServed == 2

\* ------------------------------------------------------------ data
\* the columns of locations.csv that main.py touches
Columns ==
  {"Crash_Latitude_GDA94", "Crash_Longitude_GDA94", "Count_Casualty_Fatality",
   "Crash_Nature", "Crash_Type", "Crash_Severity"}

\* headers a file may have: complete, or lacking one of these columns
Droppable == {"Crash_Severity", "Crash_Latitude_GDA94"}

Headers == {Columns} \cup {Columns \ {c} : c \in Droppable}

\* sample rows; coordinates are whole degrees
Rows ==
  { [lat |-> -26, lng |-> 153, dc |-> 1, cn |-> "Head-on",
     ct |-> "Multi-Vehicle", sev |-> "Fatal"],
    [lat |-> -27, lng |-> 152, dc |-> 2, cn |-> "Hit pedestrian",
     ct |-> "Pedestrian", sev |-> "Fatal"],
    [lat |-> -28, lng |-> 151, dc |-> 0, cn |-> "Rear-end",
     ct |-> "Multi-Vehicle", sev |-> "fatal"],
    [lat |-> -29, lng |-> 150, dc |-> 0, cn |-> "Angle",
     ct |-> "Single Vehicle", sev |-> "Hospitalisation"] }

SeqsUpTo(S, n) == UNION {[1..k -> S] : k \in 0..n}

\* a pandas DataFrame: its columns and its rows, in file order
DataFrame(c, r) == [none |-> FALSE, cols |-> c, rows |-> r]

\* Python's None, the value `fatal` has until a load assigns it
None == [none |-> TRUE, cols |-> {}, rows |-> <<>>]

\* what is on disk at 'locations.csv': nothing, bytes that do not parse, or
\* a csv table of at most n rows
Files(n) ==
  { [kind |-> k, table |-> None] : k \in {"missing", "garbled"} }
  \cup { [kind |-> "csv", table |-> DataFrame(c, r)] :
            c \in Headers, r \in SeqsUpTo(Rows, n) }

\* pd.read_csv(crash_path, dtype=...): the table, or the exception raised
read_csv(f) ==
  CASE f.kind = "missing" -> [exc |-> "FileNotFoundError", df |-> None]
    [] f.kind = "garbled" -> [exc |-> "ParserError", df |-> None]
    [] f.kind = "csv" -> [exc |-> "", df |-> f.table]

Field(r, col) ==
  CASE col = "Crash_Latitude_GDA94" -> r.lat
    [] col = "Crash_Longitude_GDA94" -> r.lng
    [] col = "Count_Casualty_Fatality" -> r.dc
    [] col = "Crash_Nature" -> r.cn
    [] col = "Crash_Type" -> r.ct
    [] col = "Crash_Severity" -> r.sev

\* mutant of GetColumn: takes the first element before listing, so a table
\* without rows raises
GetColumnFirstRow(df, col) ==
  IF df.none THEN [exc |-> "TypeError", val |-> <<>>]
  ELSE IF col \notin df.cols THEN [exc |-> "KeyError", val |-> <<>>]
  ELSE IF df.rows = <<>> THEN [exc |-> "IndexError", val |-> <<>>]
  ELSE [exc |-> "", val |-> [i \in 1..Len(df.rows) |-> Field(df.rows[i], col)]]

\* list(df[col]): TypeError on None, KeyError on a missing column
GetColumn(df, col) ==
  IF df.none THEN [exc |-> "TypeError", val |-> <<>>]
  ELSE IF col \notin df.cols THEN [exc |-> "KeyError", val |-> <<>>]
  ELSE [exc |-> "", val |-> [i \in 1..Len(df.rows) |-> Field(df.rows[i], col)]]

\* mutant of FatalMask: compares without regard to case
FatalMaskAnyCase(sev) == [i \in 1..Len(sev) |-> sev[i] \in {"Fatal", "fatal"}]

\* crashes["Crash_Severity"] == 'Fatal': the boolean mask, one entry per row
FatalMask(sev) == [i \in 1..Len(sev) |-> sev[i] = "Fatal"]

\* mutant of BoolIndex: the selected rows, last first
RECURSIVE BoolIndexReversed(_, _)
BoolIndexReversed(rows, mask) ==
  IF rows = <<>> THEN <<>>
  ELSE IF Head(mask)
       THEN BoolIndexReversed(Tail(rows), Tail(mask)) \o <<Head(rows)>>
       ELSE BoolIndexReversed(Tail(rows), Tail(mask))

\* crashes[mask]: the rows whose mask entry is True, in order
RECURSIVE BoolIndex(_, _)
BoolIndex(rows, mask) ==
  IF rows = <<>> THEN <<>>
  ELSE IF Head(mask) THEN <<Head(rows)>> \o BoolIndex(Tail(rows), Tail(mask))
       ELSE BoolIndex(Tail(rows), Tail(mask))

\* the body of load_crash_data on the file f: the exception raised, or the
\* table read and the value assigned to `fatal`
load_crash_data(f) ==
  LET rd == read_csv(f)
      sev == GetColumn(rd.df, "Crash_Severity")
  IN  IF rd.exc # "" THEN [exc |-> rd.exc, crashes |-> None, fatal |-> None]
      ELSE IF sev.exc # "" THEN [exc |-> sev.exc, crashes |-> None, fatal |-> None]
      ELSE [exc |-> "", crashes |-> rd.df,
            fatal |-> DataFrame(rd.df.cols, BoolIndex(rd.df.rows, FatalMask(sev.val)))]

\* ------------------------------------------------------------ folium
Min(a, b) == IF a < b THEN a ELSE b

FATAL_MARKER_SIZE == 10

\* folium.CircleMarker(location=[y, x], ..., tooltip=f'{dc} Dead', popup=cn)
CircleMarker(y, x, dc, cn) ==
  [location |-> <<y, x>>, radius |-> FATAL_MARKER_SIZE, color |-> "red",
   tooltip |-> ToString(dc) \o " Dead", popup |-> cn]

\* mutant of ZipMarkers: every marker is built from the loop variables as
\* they stand after the last iteration
ZipMarkersShared(lat, lng, dc, cn, ct) ==
  LET n == Min(Len(lat), Min(Len(lng), Min(Len(dc), Min(Len(cn), Len(ct)))))
  IN  [i \in 1..n |-> CircleMarker(lat[n], lng[n], dc[n], cn[n])]

\* the for loop over zip(lat, lng, dead_count, crash_nature, crash_type):
\* zip stops at the shortest list
ZipMarkers(lat, lng, dc, cn, ct) ==
  LET n == Min(Len(lat), Min(Len(lng), Min(Len(dc), Min(Len(cn), Len(ct)))))
  IN  [i \in 1..n |-> CircleMarker(lat[i], lng[i], dc[i], cn[i])]

\* a layer of the map; `entries` are its markers or heat points
Layer(kind, name, show, entries) ==
  [kind |-> kind, name |-> name, show |-> show, entries |-> entries]

\* folium.TileLayer(tiles=..., name=..., show=...)
TileLayer(name, show) == Layer("tile", name, show, <<>>)

\* folium.FeatureGroup(name='Fatal Crashes', show=True) with its markers
FeatureGroup(markers) == Layer("markers", "Fatal Crashes", TRUE, markers)

\* MarkerCluster(name='Clustered Markers', show=False, control=True)
MarkerCluster(markers) == Layer("clusters", "Clustered Markers", FALSE, markers)

\* heat_in = [[y, x] for y, x in zip(lat, lng)]
HeatIn(lat, lng) == [i \in 1..Min(Len(lat), Len(lng)) |-> <<lat[i], lng[i]>>]

\* HeatMap(data=heat_in, name='Heat Map', show=False, ...)
HeatMap(data) == Layer("heat", "Heat Map", FALSE, data)

\* folium.LayerControl()
LayerControl == Layer("control", "LayerControl", TRUE, <<>>)

\* layer.add_to(folium_map)
add_to(layer, m) == Append(m, layer)

\* folium.Map(tiles=None, ...) followed by the two base maps
NewMap ==
  add_to(TileLayer("Black/White Map", FALSE),
         add_to(TileLayer("Open Street Map", TRUE), <<>>))

\* the order in which add_markers and add_clusters read the global
MarkerColumns ==
  <<"Crash_Latitude_GDA94", "Crash_Longitude_GDA94", "Count_Casualty_Fatality",
    "Crash_Nature", "Crash_Type">>

\* the order in which add_heat_map reads the global
HeatColumns == <<"Crash_Latitude_GDA94", "Crash_Longitude_GDA94">>

\* ------------------------------------------------------------ responses
NoResp ==
  [route |-> "", status |-> 0, exc |-> "", map_div |-> <<>>, hdr_txt |-> <<>>,
   script_txt |-> <<>>]

\* Flask's answer to an exception that escapes a view
ServerError(route, exc) ==
  [route |-> route, status |-> 500, exc |-> exc, map_div |-> <<>>,
   hdr_txt |-> <<>>, script_txt |-> <<>>]

\* render_template('index.html', map_div='', hdr_txt='', script_txt='', ...)
IndexPage ==
  [route |-> "/", status |-> 200, exc |-> "", map_div |-> <<>>, hdr_txt |-> <<>>,
   script_txt |-> <<>>]

\* the three fragments of the rendered map, and the page built from them;
\* a fragment is the sequence of its pieces, '' is the empty sequence
CrashmapPage(m) ==
  [route |-> "/crashmap", status |-> 200, exc |-> "", map_div |-> <<"div">>,
   hdr_txt |-> <<"leaflet">>, script_txt |-> m]

\* Flask on a view that returns None: TypeError, answered with 500
ViewReturnedNone(route) == ServerError(route, "TypeError: view returned None")

\* ------------------------------------------------------------ state
VARIABLES
  phase,       \* "boot", "serving", or "exited" (the startup load raised)
  fatal,       \* the module-level variable of main.py
  crashes,     \* history: the table the last successful load read
  pc,          \* the page worker: the function it is in and its next read
  folium_map,  \* crashmap's local map: the layers added so far
  locals,      \* the column lists the current builder has read so far
  resp,        \* the page worker's response, until it is sent
  wresp,       \* the warm-up worker's response, until it is sent
  served       \* /crashmap responses sent so far

vars == <<phase, fatal, crashes, pc, folium_map, locals, resp, wresp, served>>

At(fn, k) == [fn |-> fn, k |-> k]

Idle == At("idle", 0)

Done == At("done", 0)

Init ==
  /\ phase = "boot"
  /\ fatal = None
  /\ crashes = None
  /\ pc = Idle
  /\ folium_map = <<>>
  /\ locals = <<>>
  /\ resp = NoResp
  /\ wresp = NoResp
  /\ served = 0

\* mutant of Assign: a load that raises clears the global
AssignOrClear(ld) ==
  IF ld.exc = "" THEN fatal' = ld.fatal /\ crashes' = ld.crashes
  ELSE fatal' = None /\ crashes' = None

\* the assignment `fatal = crashes[...]`, reached only if nothing raised
Assign(ld) ==
  IF ld.exc = "" THEN fatal' = ld.fatal /\ crashes' = ld.crashes
  ELSE UNCHANGED <<fatal, crashes>>

\* python main.py: load, then app.run; an exception ends the process
MainStart(n) ==
  /\ phase = "boot"
  /\ \E f \in Files(n) :
       LET ld == load_crash_data(f)
       IN  /\ Assign(ld)
           /\ phase' = IF ld.exc = "" THEN "serving" ELSE "exited"
  /\ UNCHANGED <<pc, folium_map, locals, resp, wresp, served>>

\* the module imported by a WSGI host: `fatal = None`, no load
WsgiStart ==
  /\ phase = "boot"
  /\ phase' = "serving"
  /\ UNCHANGED <<fatal, crashes, pc, folium_map, locals, resp, wresp, served>>

\* the response to GET /_ah/warmup once load_crash_data has run: the view
\* has no return statement
WarmupResponse(ld) ==
  IF ld.exc # "" THEN ServerError("/_ah/warmup", ld.exc)
  ELSE ViewReturnedNone("/_ah/warmup")

\* mutant of index: shows the map container once data is loaded
index_with_container ==
  [IndexPage EXCEPT !.map_div = IF fatal.none THEN <<>> ELSE <<"div">>]

\* GET /
index == IndexPage

\* ---------------------------------------------- the handlers, run whole
\* the `list(fatal[col])` lines of one builder, in order: the lists, or the
\* first exception
RECURSIVE ReadColumns(_, _)
ReadColumns(df, cols) ==
  IF cols = <<>> THEN [exc |-> "", val |-> <<>>]
  ELSE LET rd == GetColumn(df, Head(cols))
           rest == ReadColumns(df, Tail(cols))
       IN  IF rd.exc # "" THEN [exc |-> rd.exc, val |-> <<>>]
           ELSE IF rest.exc # "" THEN rest
           ELSE [exc |-> "", val |-> <<rd.val>> \o rest.val]

\* add_markers' layer from the five lists it read
MarkerLayer(l) == FeatureGroup(ZipMarkers(l[1], l[2], l[3], l[4], l[5]))

\* add_clusters' layer from the five lists it read
ClusterLayer(l) == MarkerCluster(ZipMarkers(l[1], l[2], l[3], l[4], l[5]))

\* add_heat_map's layer from the two lists it read
HeatLayer(l) == HeatMap(HeatIn(l[1], l[2]))

\* add_markers(folium_map) with the global equal to df throughout
add_markers(m, df) ==
  LET rd == ReadColumns(df, MarkerColumns)
  IN  IF rd.exc # "" THEN [exc |-> rd.exc, map |-> m]
      ELSE [exc |-> "", map |-> add_to(MarkerLayer(rd.val), m)]

\* add_clusters(folium_map) with the global equal to df throughout
add_clusters(m, df) ==
  LET rd == ReadColumns(df, MarkerColumns)
  IN  IF rd.exc # "" THEN [exc |-> rd.exc, map |-> m]
      ELSE [exc |-> "", map |-> add_to(ClusterLayer(rd.val), m)]

\* mutant of add_heat_map: no layer when there are no points
add_heat_map_if_any(m, df) ==
  LET rd == ReadColumns(df, HeatColumns)
  IN  IF rd.exc # "" THEN [exc |-> rd.exc, map |-> m]
      ELSE IF HeatIn(rd.val[1], rd.val[2]) = <<>> THEN [exc |-> "", map |-> m]
      ELSE [exc |-> "", map |-> add_to(HeatLayer(rd.val), m)]

\* add_heat_map(folium_map) with the global equal to df throughout
add_heat_map(m, df) ==
  LET rd == ReadColumns(df, HeatColumns)
  IN  IF rd.exc # "" THEN [exc |-> rd.exc, map |-> m]
      ELSE [exc |-> "", map |-> add_to(HeatLayer(rd.val), m)]

\* crashmap() with the global equal to df throughout: the response
crashmap(df) ==
  LET a == add_markers(NewMap, df)
      b == add_clusters(a.map, df)
      c == add_heat_map(b.map, df)
  IN  IF a.exc # "" THEN ServerError("/crashmap", a.exc)
      ELSE IF b.exc # "" THEN ServerError("/crashmap", b.exc)
      ELSE IF c.exc # "" THEN ServerError("/crashmap", c.exc)
      ELSE CrashmapPage(add_to(LayerControl, c.map))

\* ---------------------------------------------- synchronous worker
\* GET /_ah/warmup
SeqWarmup ==
  /\ phase = "serving"
  /\ pc = Idle
  /\ \E f \in Files(MaxSeqRows) :
       LET ld == load_crash_data(f)
       IN  /\ Assign(ld)
           /\ resp' = WarmupResponse(ld)
  /\ pc' = Done
  /\ UNCHANGED <<phase, folium_map, locals, wresp, served>>

\* GET /
Index ==
  /\ phase = "serving"
  /\ pc = Idle
  /\ resp' = index
  /\ pc' = Done
  /\ UNCHANGED <<phase, fatal, crashes, folium_map, locals, wresp, served>>

\* GET /crashmap
SeqCrashmap ==
  /\ phase = "serving"
  /\ pc = Idle
  /\ served < MaxServed
  /\ resp' = crashmap(fatal)
  /\ pc' = Done
  /\ UNCHANGED <<phase, fatal, crashes, folium_map, locals, wresp, served>>

\* the page response leaves the server; the handler's locals are gone
Send ==
  /\ pc = Done
  /\ served' = IF resp.route = "/crashmap" THEN served + 1 ELSE served
  /\ resp' = NoResp
  /\ pc' = Idle
  /\ folium_map' = <<>>
  /\ UNCHANGED <<phase, fatal, crashes, locals, wresp>>

SeqNext ==
  \/ MainStart(MaxSeqRows)
  \/ WsgiStart
  \/ SeqWarmup
  \/ Index
  \/ SeqCrashmap
  \/ Send

SeqSpec == Init /\ [][SeqNext]_vars

\* ---------------------------------------------- threaded server
\* GET /_ah/warmup on the second worker
Warmup ==
  /\ phase = "serving"
  /\ wresp = NoResp
  /\ \E f \in Files(MaxRows) :
       LET ld == load_crash_data(f)
       IN  /\ Assign(ld)
           /\ wresp' = WarmupResponse(ld)
  /\ UNCHANGED <<phase, pc, folium_map, locals, resp, served>>

\* the warm-up response leaves the server
WarmupSend ==
  /\ wresp # NoResp
  /\ wresp' = NoResp
  /\ UNCHANGED <<phase, fatal, crashes, pc, folium_map, locals, resp, served>>

\* an exception escapes crashmap: the request ends with 500
Raise(exc) ==
  /\ resp' = ServerError("/crashmap", exc)
  /\ pc' = Done
  /\ locals' = <<>>
  /\ UNCHANGED folium_map

\* GET /crashmap, up to the call of add_markers
CrashmapStart ==
  /\ phase = "serving"
  /\ pc = Idle
  /\ served < MaxServed
  /\ folium_map' = NewMap
  /\ pc' = At("add_markers", 1)
  /\ locals' = <<>>
  /\ UNCHANGED <<phase, fatal, crashes, resp, wresp, served>>

\* one `list(fatal[col])` of the builder fn, which reads the columns cols:
\* the list is kept, or the exception ends the request
ReadGlobal(fn, cols) ==
  /\ pc.fn = fn
  /\ pc.k < Len(cols)
  /\ LET rd == GetColumn(fatal, cols[pc.k])
     IN  IF rd.exc # "" THEN Raise(rd.exc)
         ELSE /\ locals' = Append(locals, rd.val)
              /\ pc' = At(fn, pc.k + 1)
              /\ UNCHANGED <<folium_map, resp>>
  /\ UNCHANGED <<phase, fatal, crashes, wresp, served>>

\* the layer the builder fn makes of the lists it read
BuiltLayer(fn, l) ==
  CASE fn = "add_markers" -> MarkerLayer(l)
    [] fn = "add_clusters" -> ClusterLayer(l)
    [] fn = "add_heat_map" -> HeatLayer(l)

\* the last read of the builder fn, then its loop and its add_to
ReadLastAndBuild(fn, cols, next) ==
  /\ pc.fn = fn
  /\ pc.k = Len(cols)
  /\ LET rd == GetColumn(fatal, cols[pc.k])
     IN  IF rd.exc # "" THEN Raise(rd.exc)
         ELSE /\ folium_map' = add_to(BuiltLayer(fn, Append(locals, rd.val)), folium_map)
              /\ locals' = <<>>
              /\ pc' = At(next, 1)
              /\ UNCHANGED resp
  /\ UNCHANGED <<phase, fatal, crashes, wresp, served>>

AddMarkersRead == ReadGlobal("add_markers", MarkerColumns)

AddMarkersBuild ==
  ReadLastAndBuild("add_markers", MarkerColumns, "add_clusters")

AddClustersRead == ReadGlobal("add_clusters", MarkerColumns)

AddClustersBuild ==
  ReadLastAndBuild("add_clusters", MarkerColumns, "add_heat_map")

AddHeatMapRead == ReadGlobal("add_heat_map", HeatColumns)

AddHeatMapBuild ==
  ReadLastAndBuild("add_heat_map", HeatColumns, "render")

\* LayerControl, the three renders and render_template
CrashmapFinish ==
  /\ pc.fn = "render"
  /\ folium_map' = add_to(LayerControl, folium_map)
  /\ resp' = CrashmapPage(folium_map')
  /\ pc' = Done
  /\ UNCHANGED <<phase, fatal, crashes, locals, wresp, served>>

Next ==
  \/ MainStart(MaxRows)
  \/ WsgiStart
  \/ Warmup
  \/ WarmupSend
  \/ Index
  \/ CrashmapStart
  \/ AddMarkersRead
  \/ AddMarkersBuild
  \/ AddClustersRead
  \/ AddClustersBuild
  \/ AddHeatMapRead
  \/ AddHeatMapBuild
  \/ CrashmapFinish
  \/ Send

Spec == Init /\ [][Next]_vars

\* ------------------------------------------------------------ properties
\* the layers of the map a page was rendered from
LayersOf(r) == r.script_txt

Kinds(m) == [i \in 1..Len(m) |-> m[i].kind]

\* the entries of the only layer of the given kind
EntriesOf(m, kind) == m[CHOOSE i \in 1..Len(m) : m[i].kind = kind].entries

\* a table that has every column the builders read
Complete(df) == ~df.none /\ Columns \subseteq df.cols

LoadExceptions == {"FileNotFoundError", "ParserError", "KeyError"}

MapPage(r) == r.route = "/crashmap" /\ r.status = 200

\* C1: a /crashmap request that arrives while the dataset is still unset
\* succeeds: the dataset is loaded on first use and a map page is returned.
C1_LazyLoadSucceeds ==
  [][(pc = Idle /\ fatal.none /\ resp'.route = "/crashmap")
       => (resp'.status = 200 /\ ~fatal'.none)]_vars

\* C2: in every reachable state the dataset is unset, or holds only rows of
\* severity exactly "Fatal" and no more rows than the table it was loaded from.
C2_OnlyFatalRows ==
  \/ fatal.none
  \/ /\ \A i \in 1..Len(fatal.rows) : fatal.rows[i].sev = "Fatal"
     /\ Len(fatal.rows) <= Len(crashes.rows)

\* C2 witness: after a page was served, a reload kept some rows and dropped
\* others
C2_Witness ==
  /\ served >= 1
  /\ ~fatal.none
  /\ Len(fatal.rows) >= 1
  /\ Len(fatal.rows) < Len(crashes.rows)

\* C3: the loaded dataset is exactly the rows of the table whose severity is
\* "Fatal" (case-sensitive), none missing, added or repeated, in file order:
\* the k-th Fatal row of the table is the k-th row of the dataset.
C3_ExactFatalSubsequence ==
  ~fatal.none =>
    LET D == crashes.rows
        idx == {i \in 1..Len(D) : D[i].sev = "Fatal"}
    IN  /\ Len(fatal.rows) = Cardinality(idx)
        /\ \A i \in idx : fatal.rows[Cardinality({j \in idx : j <= i})] = D[i]
        /\ fatal.cols = crashes.cols

\* C3 witness: two different Fatal rows around a row spelled "fatal"
C3_Witness ==
  /\ ~fatal.none
  /\ Len(crashes.rows) = 3
  /\ crashes.rows[1].sev = "Fatal"
  /\ crashes.rows[2].sev = "fatal"
  /\ crashes.rows[3].sev = "Fatal"
  /\ crashes.rows[1] # crashes.rows[3]

\* C4: for a dataset F with all its columns, add_markers puts one layer of
\* exactly |F| markers on the map, and the i-th marker has the latitude,
\* longitude, fatality-count tooltip and crash-nature popup of the i-th row.
C4_MarkerPerRecord ==
  (pc = Done /\ resp.route = "/crashmap" /\ Complete(fatal)) =>
    LET m == LayersOf(resp)
        mk == EntriesOf(m, "markers")
    IN  /\ Cardinality({i \in 1..Len(m) : m[i].kind = "markers"}) = 1
        /\ Len(mk) = Len(fatal.rows)
        /\ \A i \in 1..Len(mk) :
             /\ mk[i].location = <<fatal.rows[i].lat, fatal.rows[i].lng>>
             /\ mk[i].tooltip = ToString(fatal.rows[i].dc) \o " Dead"
             /\ mk[i].popup = fatal.rows[i].cn

\* C4 witness: a map of a dataset of three rows, not all the same
C4_Witness ==
  /\ pc = Done
  /\ MapPage(resp)
  /\ Len(fatal.rows) = 3
  /\ fatal.rows[1] # fatal.rows[2]
  /\ fatal.rows[2] = fatal.rows[3]

\* C5: every map of a successful /crashmap has exactly two tile layers, then
\* the marker, cluster and heat layers in this order, then one layer control,
\* whatever the number of rows and however many requests came before.
C5_MapShape ==
  MapPage(resp) =>
    Kinds(LayersOf(resp)) = <<"tile", "tile", "markers", "clusters", "heat", "control">>

\* C5 witness: a second map, of a dataset with rows
C5_Witness == MapPage(resp) /\ served >= 1 /\ Len(fatal.rows) >= 2

C7_WarmupAnswers200 ==
  (resp.route = "/_ah/warmup" /\ resp.exc \notin LoadExceptions)
    => (resp.status = 200 /\ ~fatal.none)

\* C8: on a loaded dataset of zero rows, /crashmap raises nothing and the
\* marker, cluster and heat layers are all on the map, each empty.
C8_EmptyLayers ==
  (pc = Done /\ resp.route = "/crashmap" /\ Complete(fatal) /\ fatal.rows = <<>>) =>
    /\ resp.status = 200
    /\ \A k \in {"markers", "clusters", "heat"} :
         /\ \E i \in 1..Len(LayersOf(resp)) : LayersOf(resp)[i].kind = k
         /\ EntriesOf(LayersOf(resp), k) = <<>>

\* C8 witness: a map request served from a table that had rows, none Fatal
C8_Witness ==
  /\ pc = Done
  /\ resp.route = "/crashmap"
  /\ Complete(fatal)
  /\ fatal.rows = <<>>
  /\ Len(crashes.rows) >= 1

\* C9: GET / always answers 200 with empty map, header and script fragments,
\* whatever the dataset, and leaves the dataset as it was.
C9_IndexIsEmptyAndPure ==
  [][(pc = Idle /\ resp'.route = "/") =>
       /\ resp'.status = 200
       /\ resp'.map_div = <<>> /\ resp'.hdr_txt = <<>> /\ resp'.script_txt = <<>>
       /\ fatal' = fatal /\ crashes' = crashes]_vars

\* C9 witness: the landing page served while the dataset is unset
C9_Witness == resp.route = "/" /\ phase = "serving" /\ fatal.none

\* C10: in one /crashmap request the marker, cluster and heat layers are built
\* from the same value of the dataset: same markers, same count, same
\* coordinates, also when a warm-up runs during the request.
C10_LayersAgree ==
  MapPage(resp) =>
    LET m == LayersOf(resp)
        mk == EntriesOf(m, "markers")
        cl == EntriesOf(m, "clusters")
        ht == EntriesOf(m, "heat")
    IN  /\ mk = cl
        /\ ht = [i \in 1..Len(mk) |-> mk[i].location]

====
